---- MODULE Spec2Model ----
\* Model of the grammar-learning harness of data_efficient_grammar/main.py
\*
\*   retro_sender : the file-mediated round trip with the external
\*                  synthesizability worker (request file, response file,
\*                  advisory locks)
\*   evaluate     : the generation loop with de-duplication and the stall
\*                  counter
\*   learn        : epochs of MCMC samples, their returns and checkpoints,
\*                  the policy update and the final generation pass
\*
\* and of ThreadedIterator of ccgvae/utils/utils.py: a worker thread that
\* feeds the elements of an iterator to its consumer through a bounded queue.
\*
\* The worker process and the lock helper it shares with retro_sender are not
\* part of the sources at hand; they are modelled from the protocol
\* description: a process that reads the request file and appends to the
\* response file, each under the exclusive advisory lock of that file.
EXTENDS Integers, Sequences, FiniteSets, TLC

\* ---------------------------------------------------------------- bounds
MaxSamples == 2     \* longest list of generated molecules handed to retro_sender
MaxRounds == 2      \* oracle round trips in one run
MaxLines == 3       \* longest response handed to the locked read on its own
MaxDraws == 12      \* draws of random_produce in one call of evaluate
MaxTarget == 2      \* largest unique-molecule target of evaluate
MaxEpochs == 2      \* largest args.max_epoches
MaxMCMC == 2        \* largest args.MCMC_size
MaxIters == 2       \* most iterations of one rollout of MCMC_sampling
MaxRollouts == 3    \* largest args.max_epoches * args.MCMC_size
MaxLearnTarget == 1 \* largest args.num_generated_samples in a run of learn
MaxLearnDraws == 4  \* draws of random_produce in one run of learn
MaxMetrics == 2     \* longest metrics list handed to evaluate on its own
MaxItems == 3       \* longest original iterator handed to a ThreadedIterator
MaxQueueSize == 2   \* largest max_queue_size of a ThreadedIterator
MaxIterations == 2  \* times one ThreadedIterator is iterated

\* ------------------------------------------------------- program constants
StallThreshold == 10

\* ------------------------------------------------------------- molecules
\* A molecule object as produced by random_produce: the structure it denotes
\* and the atom order it happens to be stored in. Two objects of the same
\* structure are different objects.
Mol(st, ord) == [struct |-> st, order |-> ord]

\* Chem.MolToSmiles: the SMILES text of a molecule object; the text depends on
\* the atom order, so one structure has several texts.
MolToSmiles(m) == [atoms |-> m.struct, written |-> m.order]

\* Chem.CanonSmiles: the canonical text of a SMILES text (many to one).
CanonSmiles(s) == [atoms |-> s.atoms, written |-> 1]

\* ------------------------------------------------------------- sequences
Range(s) == {s[i] : i \in 1..Len(s)}

RECURSIVE SumSeq(_)
SumSeq(s) == IF s = <<>> THEN 0 ELSE Head(s) + SumSeq(Tail(s))

VARIABLES
    \* ---- shared files and their advisory locks
    sender_file,        \* request file: sequence of lines (SMILES strings)
    receiver_file,      \* response file: sequence of lines (token sequences)
    sender_lock,        \* holder of the lock on the request file
    receiver_lock,      \* holder of the lock on the response file
    \* ---- retro_sender (the requester)
    pc,                 \* position of the requester in retro_sender
    generated_samples,  \* argument of retro_sender / retained molecules of evaluate
    num_samples,        \* local num_samples of retro_sender
    editable,           \* result of the last lock() call
    lines,              \* lines read from the response file at the last read
    syn_status,         \* parsed third fields
    result,             \* outcome of the call: score or raised error
    \* ---- worker process
    wpc,                \* position of the worker
    wsnap,              \* request lines the worker read last
    widx,               \* number of lines of wsnap already answered
    \* ---- observation (history) variables of the oracle protocol
    round,              \* number of the current call of retro_sender
    sender_round,       \* round whose request the request file holds
    wround,             \* round of the request the worker read last
    receiver_tags,      \* per response line: round of the request it answers
    lines_tags,         \* receiver_tags as of the last read
    access,             \* last file access of the requester
    steps,              \* protocol steps of the requester in this round
    \* ---- evaluate
    epc,                \* position in evaluate
    num_generated_samples,  \* args.num_generated_samples
    to_generate,        \* parameter to_generate (-1: use args.num_generated_samples)
    generated_samples_canonical_sml,    \* retained canonical SMILES
    idx,                \* number of retained molecules
    no_newly_generated_iter,            \* the stall counter
    GENERATED_SO_FAR,   \* process-wide counter
    save_file,          \* name of the log file the call appends to
    molecule_file,      \* lines the call has appended to the log file
    dup_streak,         \* observation: consecutive duplicate draws so far
    since_accept,       \* observation: draws since the last retained molecule
    mol_draws,          \* observation: draws of this call that returned a molecule
    total_draws,        \* observation: draws made in all calls so far
    total_accepted,     \* observation: molecules retained in all calls so far
    counter_at_call,    \* observation: GENERATED_SO_FAR when the call was entered
    \* ---- evaluate: the metrics loop
    metrics,            \* parameter metrics
    mi,                 \* position of the loop over metrics
    eval_metrics,       \* the mapping evaluate returns
    \* ---- learn
    lpc,                \* position in learn
    args,               \* args.max_epoches, args.MCMC_size, args.num_generated_samples
    train_epoch,        \* loop variable of the epoch loop
    num,                \* loop variable of the sample loop
    returns,            \* returns of the samples of this epoch
    curr_max_R,         \* running best return
    eval_metric,        \* mapping returned by the evaluate call of the sample
    saved_log_probs,    \* agent.saved_log_probs: sample -> iteration -> log-probs
    agent_params,       \* agent parameters: number of optimizer steps applied
    heap,               \* contents of the mutable objects, by object
    l_grammar,          \* reference held by l_grammar
    l_input_graphs_dict,    \* reference held by l_input_graphs_dict
    l_subgraph_set,     \* reference held by l_subgraph_set
    files_written,      \* checkpoint files written so far: name and content
    error,              \* exception that ended learn
    \* ---- observation (history) variables of learn
    rollouts,           \* calls of MCMC_sampling so far
    best_seen,          \* largest return recorded so far, 0 to begin with
    final_passes,       \* calls of evaluate made after the epoch loop
    \* ---- learn: the loss and the update
    policy_loss,        \* terms accumulated into policy_loss
    sampled_with,       \* observation: agent parameters the last rollout used
    update_steps,       \* observation: steps of the last update, in order
    \* ---- ThreadedIterator
    original_iterator,  \* elements the original iterator yields, in order
    max_queue_size,     \* parameter max_queue_size
    queue,              \* self.__queue
    thread,             \* self.__thread: "running", "done" or "failed"
    produced,           \* elements the worker has taken from original_iterator
    ipc,                \* position of the consumer in __iter__
    next_element,       \* local next_element of __iter__
    received,           \* observation: elements yielded to the consumer so far
    iterations          \* observation: times the consumer started to iterate

oracleVars == <<sender_file, receiver_file, sender_lock, receiver_lock, pc,
                generated_samples, num_samples, editable, lines, syn_status,
                result, wpc, wsnap, widx, round, sender_round, wround,
                receiver_tags, lines_tags, access, steps>>

evalVars == <<epc, num_generated_samples, to_generate,
              generated_samples_canonical_sml, idx, no_newly_generated_iter,
              GENERATED_SO_FAR, save_file, molecule_file, dup_streak,
              since_accept, mol_draws, total_draws, total_accepted,
              counter_at_call>>

learnVars == <<metrics, mi, eval_metrics, lpc, args, train_epoch, num, returns,
               curr_max_R, eval_metric, saved_log_probs, agent_params, heap,
               l_grammar, l_input_graphs_dict, l_subgraph_set, files_written,
               error, rollouts, best_seen, final_passes, policy_loss,
               sampled_with, update_steps>>

lossVars == <<policy_loss, sampled_with, update_steps>>

iterVars == <<original_iterator, max_queue_size, queue, thread, produced, ipc,
              next_element, received, iterations>>

vars == <<oracleVars, evalVars, learnVars, iterVars>>

\* ======================================================================
\* retro_sender
\* ======================================================================

\* Lists of molecules handed to retro_sender: pairwise different structures (the
\* caller de-duplicates), in two different orders per length.
InputsUpTo(k) ==
    {[i \in 1..n |-> Mol(i, 1)] : n \in 0..k}
    \cup {[i \in 1..n |-> Mol(n + 1 - i, 1)] : n \in 0..k}

OracleInputs == InputsUpTo(MaxSamples)

NoResult == [kind |-> "none"]
NoAccess == [file |-> "none", op |-> "none", locked |-> FALSE]

\* Third fields a response line may carry, and the short line without one.
Fields == {"True", "False", "2", "x"}

\* A response line "<idx> <smiles> <field>" as its whitespace-delimited tokens.
Line3(i, s, f) == <<i, s, f>>
Line2(i, s) == <<i, s>>

\* lock(f): one non-blocking attempt at the exclusive lock; TRUE on success.
lock(holder) == holder = "free"

\* Variant: the explicit unlock is skipped and the lock is kept.
UnlockSkipped(holder) == holder
\* fcntl.flock(fr, fcntl.LOCK_UN): drops the requester's lock if it holds one
Unlock(holder) == IF holder = "requester" THEN "free" ELSE holder

\* Record a step of the requester's protocol (repeated attempts recorded once).
Step(name) == IF steps # <<>> /\ steps[Len(steps)] = name THEN steps
              ELSE Append(steps, name)

\* Variant: the request file opened in append mode.
SenderFileAppend(old, samples) ==
    old \o [i \in 1..Len(samples) |-> MolToSmiles(samples[i])]

\* Lines written to the request file ("w" mode: the old content is dropped).
SenderFileWrite(old, samples) ==
    [i \in 1..Len(samples) |-> MolToSmiles(samples[i])]

\* Variant: a response with at least the requested number of lines is taken.
AcceptsAtLeast(ls, n) == Len(ls) >= n

\* len(lines) == num_samples
Accepts(ls, n) == Len(ls) = n

\* splitted_line[2] raises IndexError on a line with fewer than three fields
ParseFails(ls) == \E i \in 1..Len(ls) : Len(ls[i]) < 3

\* syn_status.append((idx, splitted_line[2]))
ParseLines(ls) == [i \in 1..Len(ls) |-> <<i - 1, ls[i][3]>>]

\* Variant: int(s[1]) without eval, which takes digits only.
EvalOkDigitsOnly(f) == f \in {"0", "1", "2"}

\* eval(s[1]) followed by int(): the value, or failure on a non-literal
EvalOk(f) == f \in {"True", "False", "0", "1", "2"}
EvalInt(f) ==
    CASE f = "True" -> 1
      [] f = "False" -> 0
      [] f = "0" -> 0
      [] f = "1" -> 1
      [] f = "2" -> 2

EvalFails(st) == \E i \in 1..Len(st) : ~EvalOk(st[i][2])

\* Variant: np.sum in place of np.mean.
SumNotMean(st) ==
    IF Len(st) = 0 THEN [kind |-> "score", num |-> 0, den |-> 1]
    ELSE [kind |-> "score",
          num |-> SumSeq([i \in 1..Len(st) |-> EvalInt(st[i][2])]),
          den |-> 1]

\* np.mean over the indicators: sum / count as a fraction; nan on no entries
Mean(st) ==
    IF Len(st) = 0 THEN [kind |-> "nan"]
    ELSE [kind |-> "score",
          num |-> SumSeq([i \in 1..Len(st) |-> EvalInt(st[i][2])]),
          den |-> Len(st)]

\* assert len(generated_samples) == len(syn_status)
AssertHolds(samples, st) == Len(samples) = Len(st)

\* evaluate is not running.
\* ------------------------------------------------------------- rationals
\* Returns are kept exact, as fractions in lowest terms.
RECURSIVE GCD(_, _)
GCD(a, b) == IF b = 0 THEN a ELSE GCD(b, a % b)

Abs(x) == IF x < 0 THEN -x ELSE x

Frac(n, d) == LET g == GCD(Abs(n), d) IN [num |-> n \div g, den |-> d \div g]

\* The value of a mean over no elements; every comparison with it is false.
NaN == [num |-> 0, den |-> 0]

FracGreater(a, b) == a.num * b.den > b.num * a.den

FracMax(a, b) == IF FracGreater(b, a) THEN b ELSE a

\* --------------------------------------------------------------- objects
\* The mutable objects of learn. A name of the program holds a reference to an
\* object; heap gives the content of each object: the rollouts (epoch, sample)
\* that have changed it since it was built (for a grammar: since the empty
\* corpus), or that it does not exist.
input_graphs_dict_init == "input_graphs_dict_init"
subgraph_set_init == "subgraph_set_init"
grammar_init == "grammar_init"
Undefined == "undefined"
Objects == {input_graphs_dict_init, subgraph_set_init, grammar_init,
            "graphs_copy", "subgraphs_copy", "grammar_copy"}
NoObject == {"none"}
AsBuilt == {}

InitialHeap ==
    [o \in Objects |->
        IF o \in {input_graphs_dict_init, subgraph_set_init} THEN AsBuilt
        ELSE NoObject]

\* An empty mapping (no key).
EmptyMap == <<>>

\* The state of learn before its first epoch: data_processing has built the
\* initial subgraph set and input-graph dictionary, the agent is new.
LearnStart(a) ==
    /\ lpc = "epoch"
    /\ args = a
    /\ metrics = <<>>
    /\ mi = 1
    /\ eval_metrics = EmptyMap
    /\ train_epoch = 0
    /\ num = 0
    /\ returns = <<>>
    /\ curr_max_R = Frac(0, 1)
    /\ eval_metric = EmptyMap
    /\ saved_log_probs = EmptyMap
    /\ agent_params = 0
    /\ heap = InitialHeap
    /\ l_grammar = Undefined
    /\ l_input_graphs_dict = Undefined
    /\ l_subgraph_set = Undefined
    /\ files_written = <<>>
    /\ error = "none"
    /\ rollouts = 0
    /\ best_seen = Frac(0, 1)
    /\ final_passes = 0
    /\ policy_loss = {}
    /\ sampled_with = 0
    /\ update_steps = <<>>

\* learn is not running.
LearnIdle ==
    /\ lpc = "off"
    /\ args = [max_epoches |-> 0, MCMC_size |-> 0, num_generated_samples |-> 0]
    /\ metrics = <<>>
    /\ mi = 1
    /\ eval_metrics = EmptyMap
    /\ train_epoch = 0
    /\ num = 0
    /\ returns = <<>>
    /\ curr_max_R = Frac(0, 1)
    /\ eval_metric = EmptyMap
    /\ saved_log_probs = EmptyMap
    /\ agent_params = 0
    /\ heap = InitialHeap
    /\ l_grammar = Undefined
    /\ l_input_graphs_dict = Undefined
    /\ l_subgraph_set = Undefined
    /\ files_written = <<>>
    /\ error = "none"
    /\ rollouts = 0
    /\ best_seen = Frac(0, 1)
    /\ final_passes = 0
    /\ policy_loss = {}
    /\ sampled_with = 0
    /\ update_steps = <<>>

EvalIdle ==
    /\ epc = "idle"
    /\ num_generated_samples = 0
    /\ to_generate = -1
    /\ generated_samples_canonical_sml = <<>>
    /\ idx = 0
    /\ no_newly_generated_iter = 0
    /\ GENERATED_SO_FAR = 0
    /\ save_file = "none"
    /\ molecule_file = <<>>
    /\ dup_streak = 0
    /\ since_accept = 0
    /\ mol_draws = 0
    /\ total_draws = 0
    /\ total_accepted = 0
    /\ counter_at_call = 0

\* The state when learn starts: both files cleared, no lock held, no call of
\* retro_sender or evaluate made yet, the worker idle.
OracleIdle ==
    /\ sender_file = <<>>
    /\ receiver_file = <<>>
    /\ sender_lock = "free"
    /\ receiver_lock = "free"
    /\ pc = "idle"
    /\ generated_samples = <<>>
    /\ num_samples = 0
    /\ editable = FALSE
    /\ lines = <<>>
    /\ syn_status = <<>>
    /\ result = NoResult
    /\ wpc = "idle"
    /\ wsnap = <<>>
    /\ widx = 0
    /\ round = 0
    /\ sender_round = 0
    /\ wround = 0
    /\ receiver_tags = <<>>
    /\ lines_tags = <<>>
    /\ access = NoAccess
    /\ steps = <<>>

\* No ThreadedIterator has been built.
IterIdle ==
    /\ original_iterator = <<>>
    /\ max_queue_size = 0
    /\ queue = <<>>
    /\ thread = "none"
    /\ produced = 0
    /\ ipc = "none"
    /\ next_element = "unset"
    /\ received = <<>>
    /\ iterations = 0

Init == OracleIdle /\ EvalIdle /\ LearnIdle /\ IterIdle

workerVars == <<wpc, wsnap, widx, wround>>

\* retro_sender(generated_samples, args) is entered.
RetroSenderCall ==
    /\ pc \in {"idle", "returned"}
    /\ round < MaxRounds
    /\ \E samples \in OracleInputs : generated_samples' = samples
    /\ round' = round + 1
    /\ pc' = "truncate"
    /\ result' = NoResult
    /\ steps' = <<>>
    /\ access' = NoAccess
    /\ lines' = <<>>
    /\ lines_tags' = <<>>
    /\ syn_status' = <<>>
    /\ editable' = FALSE
    /\ num_samples' = 0
    /\ UNCHANGED <<sender_file, receiver_file, sender_lock, receiver_lock,
                   sender_round, receiver_tags, workerVars, evalVars, learnVars, iterVars>>

\* open(receiver_file, "w"); fw.write("")
Truncate ==
    /\ pc = "truncate"
    /\ receiver_file' = <<>>
    /\ receiver_tags' = <<>>
    /\ access' = [file |-> "receiver", op |-> "truncate",
                  locked |-> receiver_lock = "requester"]
    /\ steps' = Step("truncate")
    /\ pc' = "lock_sender"
    /\ UNCHANGED <<sender_file, sender_lock, receiver_lock, generated_samples,
                   num_samples, editable, lines, syn_status, result, round,
                   sender_round, lines_tags, workerVars, evalVars, learnVars, iterVars>>

\* open(sender_file, "r"); editable = lock(fr)
LockSender ==
    /\ pc = "lock_sender"
    /\ editable' = lock(sender_lock)
    /\ sender_lock' = IF lock(sender_lock) THEN "requester" ELSE sender_lock
    /\ pc' = IF lock(sender_lock) THEN "write_sender" ELSE "unlock_sender"
    /\ steps' = Step("lock_sender")
    /\ UNCHANGED <<sender_file, receiver_file, receiver_lock, generated_samples,
                   num_samples, lines, syn_status, result, round, sender_round,
                   receiver_tags, lines_tags, access, workerVars, evalVars, learnVars, iterVars>>

\* editable: open(sender_file, "w"); one line per sample
WriteSender ==
    /\ pc = "write_sender"
    /\ sender_file' = SenderFileWrite(sender_file, generated_samples)
    /\ sender_round' = round
    /\ access' = [file |-> "sender", op |-> "write",
                  locked |-> sender_lock = "requester"]
    /\ steps' = Step("write_sender")
    /\ pc' = "close_sender"
    /\ UNCHANGED <<receiver_file, sender_lock, receiver_lock, generated_samples,
                   num_samples, editable, lines, syn_status, result, round,
                   receiver_tags, lines_tags, workerVars, evalVars, learnVars, iterVars>>

\* break: the with block closes fr, which drops the lock; num_samples = len(...)
CloseSender ==
    /\ pc = "close_sender"
    /\ sender_lock' = "free"
    /\ num_samples' = Len(generated_samples)
    /\ steps' = Step("release_sender")
    /\ pc' = "lock_receiver"
    /\ UNCHANGED <<sender_file, receiver_file, receiver_lock, generated_samples,
                   editable, lines, syn_status, result, round, sender_round,
                   receiver_tags, lines_tags, access, workerVars, evalVars, learnVars, iterVars>>

\* not editable: fcntl.flock(fr, LOCK_UN), close, next attempt
UnlockSender ==
    /\ pc = "unlock_sender"
    /\ sender_lock' = Unlock(sender_lock)
    /\ pc' = "lock_sender"
    /\ UNCHANGED <<sender_file, receiver_file, receiver_lock, generated_samples,
                   num_samples, editable, lines, syn_status, result, round,
                   sender_round, receiver_tags, lines_tags, access, steps,
                   workerVars, evalVars, learnVars, iterVars>>

\* open(receiver_file, "r"); editable = lock(fr)
LockReceiver ==
    /\ pc = "lock_receiver"
    /\ editable' = lock(receiver_lock)
    /\ receiver_lock' = IF lock(receiver_lock) THEN "requester" ELSE receiver_lock
    /\ pc' = IF lock(receiver_lock) THEN "read_receiver" ELSE "unlock_receiver"
    /\ steps' = Step("poll")
    /\ UNCHANGED <<sender_file, receiver_file, sender_lock, generated_samples,
                   num_samples, lines, syn_status, result, round, sender_round,
                   receiver_tags, lines_tags, access, workerVars, evalVars, learnVars, iterVars>>

\* Variant: a parse or eval failure is swallowed and the poll repeated.
ReadOutcomeSwallow(ls, n, samples) ==
    IF ~Accepts(ls, n) \/ ParseFails(ls) THEN
        [pc |-> "unlock_receiver", st |-> <<>>, res |-> NoResult]
    ELSE IF EvalFails(ParseLines(ls)) THEN
        [pc |-> "unlock_receiver", st |-> <<>>, res |-> NoResult]
    ELSE [pc |-> "returned", st |-> ParseLines(ls), res |-> Mean(ParseLines(ls))]

\* Outcome of lines 98-108 on the lines read: what the requester does next.
ReadOutcome(ls, n, samples) ==
    IF ~Accepts(ls, n) THEN [pc |-> "unlock_receiver", st |-> <<>>, res |-> NoResult]
    ELSE IF ParseFails(ls)
        THEN [pc |-> "raised", st |-> <<>>,
              res |-> [kind |-> "error", what |-> "IndexError"]]
    ELSE IF ~AssertHolds(samples, ParseLines(ls))
        THEN [pc |-> "raised", st |-> ParseLines(ls),
              res |-> [kind |-> "error", what |-> "AssertionError"]]
    ELSE IF EvalFails(ParseLines(ls))
        THEN [pc |-> "raised", st |-> ParseLines(ls),
              res |-> [kind |-> "error", what |-> "EvalError"]]
    ELSE [pc |-> "returned", st |-> ParseLines(ls), res |-> Mean(ParseLines(ls))]

\* editable: syn_status = []; lines = fr.readlines(); on a matching count parse
\* every line and break (the file is closed, which drops the lock), then the
\* assertion and the mean; an exception leaves the with block the same way.
ReadReceiver ==
    /\ pc = "read_receiver"
    /\ access' = [file |-> "receiver", op |-> "read",
                  locked |-> receiver_lock = "requester"]
    /\ LET out == ReadOutcome(receiver_file, num_samples, generated_samples) IN
        /\ pc' = out.pc
        \* lines is rebound by the next read: kept only when the loop is left
        /\ lines' = IF out.pc = "unlock_receiver" THEN <<>> ELSE receiver_file
        /\ lines_tags' = IF out.pc = "unlock_receiver" THEN <<>> ELSE receiver_tags
        /\ syn_status' = out.st
        /\ result' = out.res
        /\ receiver_lock' = IF out.pc = "unlock_receiver" THEN receiver_lock
                            ELSE "free"
    /\ UNCHANGED <<sender_file, receiver_file, sender_lock, generated_samples,
                   num_samples, editable, round, sender_round, receiver_tags,
                   steps, workerVars, evalVars, learnVars, iterVars>>

\* fcntl.flock(fr, LOCK_UN) and the end of the with block
UnlockReceiver ==
    /\ pc = "unlock_receiver"
    /\ receiver_lock' = Unlock(receiver_lock)
    /\ pc' = "sleep"
    /\ UNCHANGED <<sender_file, receiver_file, sender_lock, generated_samples,
                   num_samples, editable, lines, syn_status, result, round,
                   sender_round, receiver_tags, lines_tags, access, steps,
                   workerVars, evalVars, learnVars, iterVars>>

\* time.sleep(1)
Sleep ==
    /\ pc = "sleep"
    /\ pc' = "lock_receiver"
    /\ UNCHANGED <<sender_file, receiver_file, sender_lock, receiver_lock,
                   generated_samples, num_samples, editable, lines, syn_status,
                   result, round, sender_round, receiver_tags, lines_tags,
                   access, steps, workerVars, evalVars, learnVars, iterVars>>

Requester ==
    \/ RetroSenderCall
    \/ Truncate
    \/ LockSender
    \/ WriteSender
    \/ CloseSender
    \/ UnlockSender
    \/ LockReceiver
    \/ ReadReceiver
    \/ UnlockReceiver
    \/ Sleep

\* ======================================================================
\* worker process
\* ======================================================================

\* The run is over once retro_sender raised (nothing catches the exception) or
\* the last round returned; the worker is followed only until then.
RunOver == pc = "raised" \/ (pc = "returned" /\ round = MaxRounds)

requesterVars == <<pc, generated_samples, num_samples, editable, lines,
                   syn_status, result, round, lines_tags, access, steps>>

\* The worker takes the lock of the request file (when it has nothing left to
\* answer).
WorkerLockSender ==
    /\ ~RunOver
    /\ wpc = "idle"
    /\ widx = Len(wsnap)
    /\ lock(sender_lock)
    /\ sender_lock' = "worker"
    /\ wpc' = "read_sender"
    /\ UNCHANGED <<sender_file, receiver_file, receiver_lock, wsnap, widx,
                   wround, sender_round, receiver_tags, requesterVars, evalVars, learnVars, iterVars>>

\* The worker reads the request under the lock and releases it.
WorkerReadSender ==
    /\ ~RunOver
    /\ wpc = "read_sender"
    /\ wsnap' = sender_file
    /\ wround' = sender_round
    /\ widx' = 0
    /\ sender_lock' = "free"
    /\ wpc' = "idle"
    /\ UNCHANGED <<sender_file, receiver_file, receiver_lock, sender_round,
                   receiver_tags, requesterVars, evalVars, learnVars, iterVars>>

\* The worker takes the lock of the response file to answer its next line.
WorkerLockReceiver ==
    /\ ~RunOver
    /\ wpc = "idle"
    /\ widx < Len(wsnap)
    /\ Len(receiver_file) < MaxSamples
    /\ lock(receiver_lock)
    /\ receiver_lock' = "worker"
    /\ wpc' = "write_receiver"
    /\ UNCHANGED <<sender_file, receiver_file, sender_lock, wsnap, widx, wround,
                   sender_round, receiver_tags, requesterVars, evalVars, learnVars, iterVars>>

\* The worker appends the answer for line widx of its request and releases the
\* lock; the line may be well formed or not.
WorkerWriteReceiver ==
    /\ ~RunOver
    /\ wpc = "write_receiver"
    /\ \E ln \in {Line3(widx, wsnap[widx + 1], f) : f \in Fields}
                 \cup {Line2(widx, wsnap[widx + 1])} :
          receiver_file' = Append(receiver_file, ln)
    /\ receiver_tags' = Append(receiver_tags, wround)
    /\ widx' = widx + 1
    /\ receiver_lock' = "free"
    /\ wpc' = "idle"
    /\ UNCHANGED <<sender_file, sender_lock, wsnap, wround, sender_round,
                   requesterVars, evalVars, learnVars, iterVars>>

Worker ==
    \/ WorkerLockSender
    \/ WorkerReadSender
    \/ WorkerLockReceiver
    \/ WorkerWriteReceiver

NextOracle == Requester \/ Worker

SpecOracle == Init /\ [][NextOracle]_vars

\* ======================================================================
\* Properties of the oracle round trip
\* ======================================================================

PollStates == {"lock_receiver", "read_receiver", "unlock_receiver", "sleep"}
SenderStates == {"lock_sender", "write_sender", "close_sender", "unlock_sender"}

ProtocolOrder == <<"truncate", "lock_sender", "write_sender", "release_sender", "poll">>

IsPrefix(s, t) == Len(s) <= Len(t) /\ \A i \in 1..Len(s) : s[i] = t[i]

\* Every line has three fields and a third field that is a boolean/int literal.
Literals == {"True", "False", "0", "1", "2"}
WellFormed(ls) == \A i \in 1..Len(ls) : Len(ls[i]) >= 3 /\ ls[i][3] \in Literals

\* Every line has three fields and a third field denoting 0 or 1.
AllIndicators(ls) ==
    \A i \in 1..Len(ls) : Len(ls[i]) >= 3 /\ ls[i][3] \in {"True", "False", "0", "1"}

LockedRead == [file |-> "receiver", op |-> "read", locked |-> TRUE]

\* C1: retro_sender returns only after a read of the response file, made under
\* the lock of that file, that found exactly N lines; when it returns the list
\* of parsed indicators has N entries, and the assertion on the two lengths
\* never fails.
C1_ReturnsOnlyOnFullResponse ==
    /\ pc = "returned" =>
        /\ access = LockedRead
        /\ Len(lines) = Len(generated_samples)
        /\ Len(syn_status) = Len(generated_samples)
    /\ ~(result.kind = "error" /\ result.what = "AssertionError")

C1_Witness ==
    /\ pc = "returned"
    /\ Len(generated_samples) = 2
    /\ round = 2

\* C2: the response accepted in a round was written for that round's request:
\* every accepted line answers the current round, and line i carries the index
\* and the SMILES of line i of the current request.
C2_AcceptedResponseIsOfThisRound ==
    pc = "returned" =>
        \A i \in 1..Len(lines) :
            /\ lines_tags[i] = round
            /\ lines[i][1] = i - 1
            /\ lines[i][2] = MolToSmiles(generated_samples[i])

\* C3: every read, write or truncation the requester performs on the request
\* file or on the response file happens while it holds the lock of that file.
C3_RequesterAccessesUnderLock ==
    access.file # "none" => access.locked

\* C4: in every round the requester truncates the response file, then locks the
\* request file and overwrites it with exactly one line per molecule of this
\* round, then releases the lock, and only then polls the response file; the
\* response file is never read before this round's request is written.
C4_RoundOrder ==
    /\ IsPrefix(steps, ProtocolOrder)
    /\ pc \in SenderStates => "truncate" \in Range(steps)
    /\ pc \in PollStates \cup {"returned", "raised"} =>
        /\ Len(steps) >= 4
        /\ sender_round = round
        /\ Len(sender_file) = Len(generated_samples)
        /\ \A i \in 1..Len(sender_file) :
              sender_file[i] = MolToSmiles(generated_samples[i])
        /\ sender_lock # "requester"
    /\ access.op = "read" => (steps = ProtocolOrder /\ sender_round = round)

C4_Witness ==
    /\ pc = "read_receiver"
    /\ round = 2
    /\ Len(generated_samples) = 1
    /\ Len(wsnap) = 2

\* C5: there is no timeout and no retry bound: the polling loop is left only by
\* a read under the lock that finds exactly N lines, so while the line count
\* differs from N the requester keeps polling (it always has a next step and
\* neither returns nor raises); and a read under the lock that finds exactly N
\* well-formed lines returns at that poll.
C5_PollsUntilFullResponse ==
    [][/\ (pc \in PollStates /\ pc' \notin PollStates) =>
            /\ pc = "read_receiver"
            /\ receiver_lock = "requester"
            /\ Len(receiver_file) = num_samples
       /\ (pc \in PollStates /\ Len(receiver_file) # num_samples) =>
            /\ pc' \in PollStates
            /\ ENABLED Requester
       /\ (/\ pc = "read_receiver"
           /\ pc' # pc
           /\ Len(receiver_file) = num_samples
           /\ WellFormed(receiver_file)) => pc' = "returned"]_vars

C5_Witness ==
    /\ pc = "sleep"
    /\ access = LockedRead
    /\ Len(receiver_file) > num_samples

ScoreFields == Fields \cup {"0", "1"}

\* The responses of k lines to a request: line i carries index i-1, the SMILES
\* of the request's line i (of its first line past the end) and any third
\* field, or no third field.
Responses(samples, k) ==
    LET sml(i) == IF i <= Len(samples) THEN MolToSmiles(samples[i])
                  ELSE MolToSmiles(Mol(1, 1))
        variants(i) == {Line3(i - 1, sml(i), f) : f \in ScoreFields}
                       \cup {Line2(i - 1, sml(i))}
    IN  {r \in [1..k -> UNION {variants(i) : i \in 1..k}] :
            \A i \in 1..k : r[i] \in variants(i)}

InitScore ==
    /\ generated_samples \in InputsUpTo(MaxLines)
    /\ \E k \in 0..MaxLines :
          /\ receiver_file \in Responses(generated_samples, k)
          /\ receiver_tags = [i \in 1..k |-> 1]
    /\ sender_file = SenderFileWrite(<<>>, generated_samples)
    /\ num_samples = Len(generated_samples)
    /\ sender_lock = "free"
    /\ receiver_lock = "free"
    /\ pc = "lock_receiver"
    /\ editable = TRUE
    /\ lines = <<>>
    /\ lines_tags = <<>>
    /\ syn_status = <<>>
    /\ result = NoResult
    /\ wpc = "idle"
    /\ wsnap = <<>>
    /\ widx = 0
    /\ round = 1
    /\ sender_round = 1
    /\ wround = 0
    /\ access = [file |-> "sender", op |-> "write", locked |-> TRUE]
    /\ steps = <<"truncate", "lock_sender", "write_sender", "release_sender">>
    /\ EvalIdle
    /\ LearnIdle
    /\ IterIdle

NextScore == LockReceiver \/ ReadReceiver \/ UnlockReceiver \/ Sleep

SpecScore == InitScore /\ [][NextScore]_vars

\* The third fields of the lines read.
ThirdFields(ls) == [i \in 1..Len(ls) |-> ls[i][3]]

\* C7 (as stated): for every N >= 0 and every accepted response the returned
\* score is a defined value between 0 and 1 inclusive.
C7_ScoreInUnitInterval ==
    pc = "returned" =>
        /\ result.kind = "score"
        /\ 0 <= result.num
        /\ result.num <= result.den

\* C7 (amended): for every N >= 1 the returned score is the sum of the N parsed
\* values divided by N; when every third field denotes 0 or 1 it is the number
\* of true indicators over N, between 0 and 1 inclusive (2/3 for True, False,
\* True). For N = 0 the mean of no values is returned, which is not a number.
C7_MeanOfIndicators ==
    pc = "returned" =>
        /\ num_samples = 0 => result.kind = "nan"
        /\ num_samples >= 1 =>
            /\ result.kind = "score"
            /\ result.den = num_samples
            /\ Len(lines) = num_samples
        /\ (num_samples >= 1 /\ AllIndicators(lines)) =>
            /\ result.num = Cardinality({i \in 1..Len(lines) :
                                            lines[i][3] \in {"True", "1"}})
            /\ 0 <= result.num
            /\ result.num <= result.den
        /\ (Len(lines) = 3 /\ ThirdFields(lines) = <<"True", "False", "True">>) =>
            result = [kind |-> "score", num |-> 2, den |-> 3]

C7_Witness ==
    /\ pc = "returned"
    /\ result = [kind |-> "score", num |-> 2, den |-> 3]
    /\ ThirdFields(lines) = <<"True", "False", "True">>

\* ======================================================================
\* evaluate: the generation loop
\* ======================================================================

\* Structures random_produce can build, each in two atom orders.
Structs == {1, 2}
Mols == {Mol(st, ord) : st \in Structs, ord \in {1, 2}}

protoVars == <<sender_file, receiver_file, sender_lock, receiver_lock, pc,
               num_samples, editable, lines, syn_status, result, wpc, wsnap,
               widx, round, sender_round, wround, receiver_tags, lines_tags,
               access, steps>>

SAVE_FILE_IN_TRAINING == "generated_samples.in-training.txt"
SAVE_FILE_THE_END == "generated_samples.the-end.txt"

\* The unique-molecule target of the call.
Target == IF to_generate = -1 THEN num_generated_samples ELSE to_generate

\* Variant: the SMILES text as written is compared, not its canonical form.
IsNovelByText(m, canon, samples) ==
    MolToSmiles(m) \notin {MolToSmiles(samples[i]) : i \in 1..Len(samples)}

\* can_sml_mol not in generated_samples_canonical_sml
IsNovel(m, canon, samples) == CanonSmiles(MolToSmiles(m)) \notin Range(canon)

\* Variant: the stall test is >= instead of >.
LoopExitAtThreshold(n, stall, target) == n >= target \/ stall >= StallThreshold

\* idx >= target or no_newly_generated_iter > 10
LoopExit(n, stall, target) == n >= target \/ stall > StallThreshold

\* Variant: the stall counter is never set back.
StallNeverReset(novel, stall) == stall + 1

\* no_newly_generated_iter after a draw: 0 when the molecule is retained,
\* one more when it is a duplicate or the draw failed.
StallNext(novel, stall) == IF novel THEN 0 ELSE stall + 1

\* Variant: only retained molecules are logged.
LogOnlyNovel(file, line, novel) == IF novel THEN Append(file, line) ELSE file

\* molecule_file.write(line): the line is appended whether or not the
\* molecule is retained.
LogWrite(file, line, novel) == Append(file, line)

\* Variant: the counter counts retained molecules only.
CounterCountsAccepted(count, accepted) == IF accepted THEN count + 1 ELSE count

\* GENERATED_SO_FAR += 1, made right after the draw, whatever it returned.
CounterNext(count, accepted) == count + 1

\* evaluate(grammar, args, metrics, to_generate) is entered with
\* to_generate = t and args.num_generated_samples = n: the locals are
\* initialised and the log file is opened for appending.
EvaluateEnter(t, n) ==
    /\ num_generated_samples' = n
    /\ to_generate' = t
    /\ save_file' = IF t = -1 THEN SAVE_FILE_IN_TRAINING ELSE SAVE_FILE_THE_END
    /\ generated_samples' = <<>>
    /\ generated_samples_canonical_sml' = <<>>
    /\ idx' = 0
    /\ no_newly_generated_iter' = 0
    /\ molecule_file' = <<>>
    /\ dup_streak' = 0
    /\ since_accept' = 0
    /\ mol_draws' = 0
    /\ counter_at_call' = GENERATED_SO_FAR
    /\ epc' = "loop"

\* A call of evaluate on its own, with any target.
EvaluateCall ==
    /\ epc = "idle"
    /\ \E t \in {-1} \cup 0..MaxTarget, n \in 0..MaxTarget :
          /\ t # -1 => n = MaxTarget
          /\ EvaluateEnter(t, n)
    /\ UNCHANGED <<GENERATED_SO_FAR, total_draws, total_accepted, protoVars,
                   learnVars, iterVars>>

\* One pass of the loop in which random_produce returns no molecule: the
\* counters are raised and the loop continues from its head.
DrawNone ==
    /\ epc = "loop"
    /\ GENERATED_SO_FAR < MaxDraws
    /\ GENERATED_SO_FAR' = CounterNext(GENERATED_SO_FAR, FALSE)
    /\ no_newly_generated_iter' = StallNext(FALSE, no_newly_generated_iter)
    /\ dup_streak' = 0
    /\ since_accept' = since_accept + 1
    /\ total_draws' = total_draws + 1
    /\ UNCHANGED <<epc, mol_draws, total_accepted, counter_at_call, num_generated_samples, to_generate, generated_samples,
                   generated_samples_canonical_sml, idx, save_file,
                   molecule_file, protoVars, learnVars, iterVars>>

\* One pass of the loop in which random_produce returns molecule m: the line
\* is logged, the molecule retained when novel, and the exit test made.
DrawMol(m) ==
    /\ epc = "loop"
    /\ GENERATED_SO_FAR < MaxDraws
    /\ LET can_sml_mol == CanonSmiles(MolToSmiles(m))
           novel == IsNovel(m, generated_samples_canonical_sml, generated_samples)
           idx1 == IF novel THEN idx + 1 ELSE idx
           stall1 == StallNext(novel, no_newly_generated_iter)
       IN
        /\ GENERATED_SO_FAR' = CounterNext(GENERATED_SO_FAR, novel)
        /\ molecule_file' = LogWrite(molecule_file, can_sml_mol, novel)
        /\ generated_samples' =
              IF novel THEN Append(generated_samples, m) ELSE generated_samples
        /\ generated_samples_canonical_sml' =
              IF novel THEN Append(generated_samples_canonical_sml, can_sml_mol)
              ELSE generated_samples_canonical_sml
        /\ idx' = idx1
        /\ no_newly_generated_iter' = stall1
        /\ dup_streak' = IF novel THEN 0 ELSE dup_streak + 1
        /\ since_accept' = IF Len(generated_samples') > Len(generated_samples)
                           THEN 0 ELSE since_accept + 1
        /\ mol_draws' = mol_draws + 1
        /\ total_draws' = total_draws + 1
        /\ total_accepted' =
              IF Len(generated_samples') > Len(generated_samples)
              THEN total_accepted + 1 ELSE total_accepted
        /\ epc' = IF LoopExit(idx1, stall1, Target) THEN "metrics" ELSE "loop"
    /\ UNCHANGED <<num_generated_samples, to_generate, save_file,
                   counter_at_call, protoVars, learnVars, iterVars>>

Draw == \E m \in Mols : DrawMol(m)

NextEval == EvaluateCall \/ DrawNone \/ Draw

SpecEval == Init /\ [][NextEval]_vars

\* ======================================================================
\* Properties of the generation loop
\* ======================================================================

\* The first occurrences of the entries of a sequence, in order.
RECURSIVE FirstOccurrences(_)
FirstOccurrences(s) ==
    IF s = <<>> THEN <<>>
    ELSE LET front == FirstOccurrences(SubSeq(s, 1, Len(s) - 1))
             last == s[Len(s)]
         IN  IF last \in Range(front) THEN front ELSE Append(front, last)

NoDuplicates(s) == \A i, j \in 1..Len(s) : s[i] = s[j] => i = j

\* C8: the stall counter bounds the loop: while the loop is still running the
\* number of consecutive draws without a novel molecule has not passed the
\* threshold, so the loop has ended by the eleventh such draw whatever
\* random_produce returns.
C8_StallCounterEndsLoop ==
    epc = "loop" => no_newly_generated_iter <= StallThreshold

\* C9 (as stated): 11 consecutive duplicate draws halt the loop right after
\* the 11th, and the loop never halts with the target unmet after a streak of
\* 10 or fewer duplicates.
C9_ElevenDuplicatesExactly ==
    /\ dup_streak >= 11 => epc = "metrics"
    /\ (epc = "metrics" /\ idx < Target) => dup_streak >= 11

\* C9 (amended): the loop halts with the target unmet exactly when a draw that
\* returned a duplicate molecule brings the number of consecutive draws without
\* a novel molecule, failed draws included, above 10: 11 consecutive
\* duplicates halt it right after the 11th, and it never halts with the target
\* unmet while that number is 10 or less.
C9_StallAboveTen ==
    /\ dup_streak >= 11 => epc = "metrics"
    /\ dup_streak <= 11
    /\ (epc = "metrics" /\ idx < Target) =>
        /\ no_newly_generated_iter > 10
        /\ dup_streak >= 1
    /\ (epc = "loop" /\ dup_streak >= 1) =>
        (idx < Target /\ no_newly_generated_iter <= 10)

C9_Witness ==
    /\ epc = "metrics"
    /\ idx < Target
    /\ dup_streak = 11
    /\ no_newly_generated_iter = 11

\* C10: the retained canonical SMILES are pairwise different, as many as the
\* retained molecules and as idx, each the canonical SMILES of the molecule
\* retained with it, and they are the first occurrences, in draw order, of the
\* canonical SMILES of the molecules generated so far.
C10_RetainedAreFirstOccurrences ==
    /\ NoDuplicates(generated_samples_canonical_sml)
    /\ Len(generated_samples_canonical_sml) = idx
    /\ Len(generated_samples) = idx
    /\ \A i \in 1..Len(generated_samples) :
          generated_samples_canonical_sml[i]
              = CanonSmiles(MolToSmiles(generated_samples[i]))
    /\ generated_samples_canonical_sml = FirstOccurrences(molecule_file)

C10_Witness ==
    /\ epc = "metrics"
    /\ idx = 2
    /\ Len(molecule_file) = 5
    /\ molecule_file[2] = molecule_file[1]

\* A step of the loop that made one draw.
IsDraw == total_draws' = total_draws + 1

\* The draw of this step retained a molecule.
Retains == Len(generated_samples') = Len(generated_samples) + 1

\* C11: a draw sets the stall counter to zero if and only if it retains a
\* new unique molecule, every other draw (duplicate or failed) raises it by
\* exactly one, and at every point the counter is the number of draws since
\* the last retained molecule or since the start of the call.
C11_StallCounterCountsDrawsSinceAccept ==
    /\ [](no_newly_generated_iter = since_accept)
    /\ [][IsDraw =>
            /\ (no_newly_generated_iter' = 0) <=> Retains
            /\ ~Retains => /\ no_newly_generated_iter' = no_newly_generated_iter + 1
                           /\ generated_samples' = generated_samples]_vars

C11_Witness ==
    /\ epc = "metrics"
    /\ idx = 2
    /\ no_newly_generated_iter = 0
    /\ GENERATED_SO_FAR = 4
    /\ Len(molecule_file) = 3
    /\ molecule_file[2] = molecule_file[1]

\* q extends p.
Extends(q, p) == Len(q) >= Len(p) /\ SubSeq(q, 1, Len(p)) = p

\* C12: during a call the log only grows, by one line for every draw that
\* returned a molecule (duplicates included) and by none for a failed draw,
\* so the lines appended are as many as the draws that returned a molecule
\* and the retained canonical SMILES are their de-duplication; a call with
\* to_generate = -1 appends to the in-training log, any other call to the
\* the-end log.
C12_LogGrowsByOneLinePerMolecule ==
    /\ [](/\ Len(molecule_file) = mol_draws
          /\ generated_samples_canonical_sml = FirstOccurrences(molecule_file)
          /\ epc # "idle" =>
                save_file = (IF to_generate = -1 THEN SAVE_FILE_IN_TRAINING
                             ELSE SAVE_FILE_THE_END))
    /\ [][IsDraw =>
            /\ Extends(molecule_file', molecule_file)
            /\ Len(molecule_file') - Len(molecule_file) = mol_draws' - mol_draws
            /\ save_file' = save_file]_vars

C12_Witness ==
    /\ epc = "loop"
    /\ save_file = SAVE_FILE_THE_END
    /\ mol_draws = 3
    /\ GENERATED_SO_FAR = 5
    /\ idx = 1
    /\ Len(molecule_file) = 3

\* ======================================================================
\* learn: epochs of MCMC samples, returns, checkpoints, the policy update
\* and the final generation pass
\* ======================================================================
\* Agent and MCMC_sampling are not part of the sources at hand; they are
\* modelled from their description: a rollout of sample s makes one or more
\* iterations, each of which records the log-probabilities of its action
\* choices in agent.saved_log_probs[s][iteration], and it changes the
\* grammar, the input-graph dictionary and the subgraph set it was handed.
\*
\* The call of retro_sender made by evaluate is taken here as two steps, its
\* entry and the rest of the round trip up to the accepted response; the
\* protocol itself is the subject of SpecOracle.

LearnArgs ==
    {a \in [max_epoches : 0..MaxEpochs, MCMC_size : 0..MaxMCMC,
            num_generated_samples : 1..MaxLearnTarget] :
        a.max_epoches * a.MCMC_size <= MaxRollouts}

\* Molecules random_produce returns in a run of learn.
LearnMols == {Mol(st, 1) : st \in Structs}

InitLearn ==
    OracleIdle /\ EvalIdle /\ IterIdle /\ \E a \in LearnArgs : LearnStart(a)

evalLocals == <<epc, num_generated_samples, to_generate,
                generated_samples_canonical_sml, idx, no_newly_generated_iter,
                save_file, molecule_file, dup_streak, since_accept, mol_draws,
                counter_at_call>>

evalTotals == <<GENERATED_SO_FAR, total_draws, total_accepted>>

\* Values the diversity measure may return.
DiversityValues == {0, 1}

\* Variant: a training call asks for the oracle score twice.
TrainingMetricsSynTwice == <<"diversity", "syn", "syn">>

\* metrics=["diversity", "syn"] of the training calls
TrainingMetrics == <<"diversity", "syn">>

\* Variant: the final pass asks for the default metrics.
FinalMetricsDefault == <<"diversity", "syn">>

\* metrics=[] of the final pass
FinalMetrics == <<>>

\* Variant: the returns of the run are kept from epoch to epoch.
KeepReturns(old) == old

\* returns = [] at the head of an epoch
EpochReturns(old) == <<>>

\* Variant: the trace store is left as it is.
KeepTrace(store) == store

\* agent.saved_log_probs.clear()
ClearTrace(store) == EmptyMap

\* Variant: a return equal to the running best counts as a new best.
IsNewBestOrEqual(R, best) == ~FracGreater(best, R)

\* R_ind > curr_max_R
IsNewBest(R, best) == FracGreater(R, best)

\* Variant: the file name is built from the epoch alone.
CheckpointNameEpochOnly(kind, epoch, R) == [kind |-> kind, epoch |-> epoch]

\* "epoch_<kind>_{}_{}.pkl".format(train_epoch, R_ind)
CheckpointName(kind, epoch, R) == [kind |-> kind, epoch |-> epoch, R |-> R]

\* Variant: the name is bound to the object itself, no copy is made.
CopyReference(obj, fresh) == obj

\* deepcopy(obj): the reference of a new object with the content of obj.
Deepcopy(obj, fresh) == fresh

\* The heap after the object behind ref has been given the content of obj.
CopyInto(h, obj, ref) == [h EXCEPT ![ref] = h[obj]]

\* The log-probabilities a rollout of k iterations records for sample s in
\* epoch e: iteration i has i + 1 action choices.
LogProbs(e, s, k) ==
    [i \in 0..(k - 1) |->
        [j \in 1..(i + 1) |-> [epoch |-> e, sample |-> s, iter |-> i, choice |-> j]]]

\* The trace store after the entries of new have been appended under sample s.
Recorded(store, s, new) ==
    LET old == IF s \in DOMAIN store THEN store[s] ELSE EmptyMap
        both == [i \in DOMAIN old \cup DOMAIN new |->
                    (IF i \in DOMAIN old THEN old[i] ELSE <<>>)
                    \o (IF i \in DOMAIN new THEN new[i] ELSE <<>>)]
    IN  [x \in DOMAIN store \cup {s} |-> IF x = s THEN both ELSE store[x]]

\* R = eval_metric["diversity"] + 2 * eval_metric["syn"]
Return(m) ==
    IF m["syn"].kind = "nan" THEN NaN
    ELSE Frac(m["diversity"] * m["syn"].den + 2 * m["syn"].num, m["syn"].den)

\* The three files of one checkpoint, in the order they are written.
Checkpoint(epoch, R, agent, grammar, graphs) ==
    << [name |-> CheckpointName("agent", epoch, R), content |-> agent],
       [name |-> CheckpointName("grammar", epoch, R), content |-> grammar],
       [name |-> CheckpointName("input_graphs", epoch, R), content |-> graphs] >>

\* The responses the worker gives in a run of learn: one line per requested
\* molecule, with a True or False verdict or with the verdict missing.
LearnResponses(samples) ==
    {r \in Responses(samples, Len(samples)) :
        \A i \in 1..Len(r) : Len(r[i]) = 3 => r[i][3] \in {"True", "False"}}

FracAdd(a, b) == Frac(a.num * b.den + b.num * a.den, a.den * b.den)

FracSub(a, b) == Frac(a.num * b.den - b.num * a.den, a.den * b.den)

RECURSIVE FracSum(_)
FracSum(rs) == IF rs = <<>> THEN Frac(0, 1) ELSE FracAdd(Head(rs), FracSum(Tail(rs)))

\* returns.mean()
FracMean(rs) ==
    IF rs = <<>> THEN NaN
    ELSE Frac(FracSum(rs).num, FracSum(rs).den * Len(rs))

\* Variant: the returns are used as they are.
NoBaseline(rs) == rs

\* returns - returns.mean()
SubtractMean(rs) == [i \in 1..Len(rs) |-> FracSub(rs[i], FracMean(rs))]

\* Variant: the exponent is the iteration index itself.
DiscountExponentForward(m, k) == k

\* The exponent of args.gammar ** (max_iter_num - iter_num_key).
DiscountExponent(m, k) == m - k

\* max(list(keys))
Max(S) == CHOOSE x \in S : \A y \in S : y <= x

\* The terms added to policy_loss: for every log-probability of every
\* iteration key of every sample key, -log_prob * gammar ** exponent *
\* returns[sample_number].
LossTerms(store, rs) ==
    UNION {UNION {{[log_prob |-> store[s][k][j],
                    exponent |-> DiscountExponent(Max(DOMAIN store[s]), k),
                    weight |-> rs[s + 1]] : j \in 1..Len(store[s][k])}
                  : k \in DOMAIN store[s]}
           : s \in DOMAIN store}

\* Variant: the optimizer steps twice.
OptimizerStepTwice(params) == params + 2

\* optimizer.step(): the parameters after one more update.
OptimizerStep(params) == params + 1

\* for train_epoch in range(args.max_epoches): returns = []
EpochStart ==
    /\ lpc = "epoch"
    /\ train_epoch < args.max_epoches
    /\ returns' = EpochReturns(returns)
    /\ num' = 0
    /\ lpc' = IF 0 < args.MCMC_size THEN "sample" ELSE "loss"
    /\ UNCHANGED <<metrics, mi, eval_metrics, args, train_epoch, curr_max_R,
                   eval_metric, saved_log_probs, agent_params, heap, l_grammar,
                   l_input_graphs_dict, l_subgraph_set, files_written, error,
                   rollouts, best_seen, final_passes, lossVars, oracleVars, evalVars, iterVars>>

\* for num in range(args.MCMC_size): a new empty corpus, and copies of the
\* initial input-graph dictionary, subgraph set and corpus.
SampleCopy ==
    /\ lpc = "sample"
    /\ LET h0 == [heap EXCEPT ![grammar_init] = AsBuilt]
           graphs == Deepcopy(input_graphs_dict_init, "graphs_copy")
           subgraphs == Deepcopy(subgraph_set_init, "subgraphs_copy")
           grammar == Deepcopy(grammar_init, "grammar_copy")
       IN
        /\ l_input_graphs_dict' = graphs
        /\ l_subgraph_set' = subgraphs
        /\ l_grammar' = grammar
        /\ heap' = CopyInto(CopyInto(CopyInto(h0, input_graphs_dict_init, graphs),
                                     subgraph_set_init, subgraphs),
                            grammar_init, grammar)
    /\ lpc' = "rollout"
    /\ UNCHANGED <<metrics, mi, eval_metrics, args, train_epoch, num, returns,
                   curr_max_R, eval_metric, saved_log_probs, agent_params,
                   files_written, error, rollouts, best_seen, final_passes, lossVars,
                   oracleVars, evalVars, iterVars>>

\* MCMC_sampling(agent, l_input_graphs_dict, l_subgraph_set, l_grammar, num,
\* args): a rollout of k iterations changes the three objects it was handed
\* and records its log-probabilities under the sample index.
MCMCSampling ==
    /\ lpc = "rollout"
    /\ \E k \in 1..MaxIters :
          /\ saved_log_probs' =
                Recorded(saved_log_probs, num, LogProbs(train_epoch, num, k))
          /\ heap' = [o \in Objects |->
                        IF o \in {l_input_graphs_dict, l_subgraph_set, l_grammar}
                        THEN heap[o] \cup {<<train_epoch, num>>} ELSE heap[o]]
    /\ rollouts' = rollouts + 1
    /\ sampled_with' = agent_params
    /\ lpc' = "evaluate_call"
    /\ UNCHANGED <<metrics, mi, eval_metrics, args, train_epoch, num, returns,
                   curr_max_R, eval_metric, agent_params, l_grammar,
                   l_input_graphs_dict, l_subgraph_set, files_written, error,
                   best_seen, final_passes, policy_loss, update_steps,
                   oracleVars, evalVars,
                   iterVars>>

\* evaluate(l_grammar, args, metrics=["diversity", "syn"])
TrainEvaluateCall ==
    /\ lpc = "evaluate_call"
    /\ epc = "idle"
    /\ EvaluateEnter(0 - 1, args.num_generated_samples)
    /\ metrics' = TrainingMetrics
    /\ mi' = 1
    /\ eval_metrics' = EmptyMap
    /\ lpc' = "evaluate"
    /\ UNCHANGED <<args, train_epoch, num, returns, curr_max_R, eval_metric,
                   saved_log_probs, agent_params, heap, l_grammar,
                   l_input_graphs_dict, l_subgraph_set, files_written, error,
                   rollouts, best_seen, final_passes, lossVars, evalTotals, protoVars, iterVars>>

\* One pass of the generation loop of the evaluate call in progress.
LearnDraw ==
    /\ lpc \in {"evaluate", "final"}
    /\ GENERATED_SO_FAR < MaxLearnDraws
    /\ (DrawNone \/ \E m \in LearnMols : DrawMol(m))

\* for _metric in metrics, _metric == "diversity"
MetricDiversity ==
    /\ epc = "metrics"
    /\ mi <= Len(metrics)
    /\ metrics[mi] = "diversity"
    /\ \E d \in DiversityValues : eval_metrics' = ("diversity" :> d) @@ eval_metrics
    /\ mi' = mi + 1
    /\ UNCHANGED <<metrics, lpc, args, train_epoch, num, returns, curr_max_R,
                   eval_metric, saved_log_probs, agent_params, heap, l_grammar,
                   l_input_graphs_dict, l_subgraph_set, files_written, error,
                   rollouts, best_seen, final_passes, lossVars, oracleVars, evalVars, iterVars>>

\* for _metric in metrics, _metric == "syn": retro_sender(generated_samples,
\* args) is entered.
MetricSyn ==
    /\ epc = "metrics"
    /\ mi <= Len(metrics)
    /\ metrics[mi] = "syn"
    /\ epc' = "syn"
    /\ round' = round + 1
    /\ pc' = "truncate"
    /\ result' = NoResult
    /\ UNCHANGED <<sender_file, receiver_file, sender_lock, receiver_lock,
                   generated_samples, num_samples, editable, lines, syn_status,
                   wpc, wsnap, widx, sender_round, wround, receiver_tags,
                   lines_tags, access, steps>>
    /\ UNCHANGED <<num_generated_samples, to_generate,
                   generated_samples_canonical_sml, idx, no_newly_generated_iter,
                   save_file, molecule_file, dup_streak, since_accept, mol_draws,
                   counter_at_call, evalTotals, learnVars, iterVars>>

\* The rest of the round trip: the request is written, a response with as
\* many lines as requested is accepted, and retro_sender returns its mean or
\* raises; an exception ends learn.
RoundTrip ==
    /\ epc = "syn"
    /\ pc = "truncate"
    /\ \E resp \in LearnResponses(generated_samples) :
          LET out == ReadOutcome(resp, Len(generated_samples), generated_samples)
          IN  /\ sender_file' = SenderFileWrite(sender_file, generated_samples)
              /\ sender_round' = round
              /\ receiver_file' = resp
              /\ receiver_tags' = [i \in 1..Len(resp) |-> round]
              /\ num_samples' = Len(generated_samples)
              /\ pc' = out.pc
              /\ result' = out.res
              /\ IF out.pc = "returned"
                 THEN /\ eval_metrics' = ("syn" :> out.res) @@ eval_metrics
                      /\ mi' = mi + 1
                      /\ epc' = "metrics"
                      /\ UNCHANGED <<lpc, error>>
                 ELSE /\ epc' = "raised"
                      /\ lpc' = "raised"
                      /\ error' = out.res.what
                      /\ UNCHANGED <<eval_metrics, mi>>
    /\ UNCHANGED <<sender_lock, receiver_lock, generated_samples, round, editable,
                   lines, syn_status, wpc, wsnap, widx, wround, lines_tags,
                   access, steps>>
    /\ UNCHANGED <<num_generated_samples, to_generate,
                   generated_samples_canonical_sml, idx, no_newly_generated_iter,
                   save_file, molecule_file, dup_streak, since_accept, mol_draws,
                   counter_at_call, evalTotals>>
    /\ UNCHANGED <<metrics, args, train_epoch, num, returns, curr_max_R,
                   eval_metric, saved_log_probs, agent_params, heap, l_grammar,
                   l_input_graphs_dict, l_subgraph_set, files_written, rollouts,
                   best_seen, final_passes, lossVars, iterVars>>

\* return eval_metrics: the locals of the call are gone; the training call
\* binds the mapping to eval_metric, the final call drops it and learn ends.
EvaluateReturn ==
    /\ epc = "metrics"
    /\ mi > Len(metrics)
    /\ lpc \in {"evaluate", "final"}
    /\ epc' = "idle"
    /\ generated_samples' = <<>>
    /\ generated_samples_canonical_sml' = <<>>
    /\ idx' = 0
    /\ no_newly_generated_iter' = 0
    /\ molecule_file' = <<>>
    /\ dup_streak' = 0
    /\ since_accept' = 0
    /\ mol_draws' = 0
    /\ eval_metric' = IF lpc = "evaluate" THEN eval_metrics ELSE eval_metric
    /\ lpc' = IF lpc = "evaluate" THEN "record" ELSE "done"
    /\ UNCHANGED <<num_generated_samples, to_generate, save_file,
                   counter_at_call, evalTotals>>
    /\ UNCHANGED <<sender_file, receiver_file, sender_lock, receiver_lock, pc,
                   num_samples, editable, lines, syn_status, result, wpc, wsnap,
                   widx, round, sender_round, wround, receiver_tags, lines_tags,
                   access, steps>>
    /\ UNCHANGED <<metrics, mi, eval_metrics, args, train_epoch, num, returns,
                   curr_max_R, saved_log_probs, agent_params, heap, l_grammar,
                   l_input_graphs_dict, l_subgraph_set, files_written, error,
                   rollouts, best_seen, final_passes, lossVars, iterVars>>

\* R = diversity + 2 * syn; returns.append(R); on a new best the three
\* checkpoint files are written and curr_max_R is raised.
Record ==
    /\ lpc = "record"
    /\ LET R == Return(eval_metric)
           R_ind == R
       IN  /\ returns' = Append(returns, R)
           /\ IF IsNewBest(R_ind, curr_max_R)
              THEN /\ files_written' = files_written \o
                        Checkpoint(train_epoch, R_ind, agent_params,
                                   heap[l_grammar], heap[l_input_graphs_dict])
                   /\ curr_max_R' = R_ind
              ELSE UNCHANGED <<files_written, curr_max_R>>
           /\ best_seen' = FracMax(best_seen, R)
    /\ num' = num + 1
    /\ lpc' = IF num + 1 < args.MCMC_size THEN "sample" ELSE "loss"
    /\ UNCHANGED <<metrics, mi, eval_metrics, args, train_epoch, eval_metric,
                   saved_log_probs, agent_params, heap, l_grammar,
                   l_input_graphs_dict, l_subgraph_set, error, rollouts,
                   final_passes, lossVars, oracleVars, evalVars, iterVars>>

\* returns = returns - returns.mean(); assert len(returns) ==
\* len(agent.saved_log_probs.keys()); policy_loss starts from zero and
\* receives one term per recorded log-probability.
Loss ==
    /\ lpc = "loss"
    /\ returns' = SubtractMean(returns)
    /\ IF Len(returns) = Cardinality(DOMAIN saved_log_probs)
       THEN /\ policy_loss' = LossTerms(saved_log_probs, returns')
            /\ lpc' = "update"
            /\ UNCHANGED error
       ELSE /\ lpc' = "raised"
            /\ error' = "AssertionError(loss)"
            /\ UNCHANGED policy_loss
    /\ UNCHANGED <<metrics, mi, eval_metrics, args, train_epoch, num,
                   curr_max_R, eval_metric, saved_log_probs, agent_params, heap,
                   l_grammar, l_input_graphs_dict, l_subgraph_set, files_written,
                   rollouts, best_seen, final_passes, sampled_with,
                   update_steps, oracleVars, evalVars,
                   iterVars>>

\* optimizer.zero_grad(); policy_loss.backward(); optimizer.step();
\* agent.saved_log_probs.clear(); the epoch is logged. backward() raises when
\* no log-probability entered the loss. policy_loss is not read again before
\* the next epoch rebinds it, so it is dropped here.
Update ==
    /\ lpc = "update"
    /\ IF policy_loss = {}
       THEN /\ lpc' = "raised"
            /\ error' = "RuntimeError"
            /\ update_steps' = <<"zero_grad", "backward">>
            /\ UNCHANGED <<agent_params, saved_log_probs, train_epoch,
                           policy_loss>>
       ELSE /\ agent_params' = OptimizerStep(agent_params)
            /\ saved_log_probs' = ClearTrace(saved_log_probs)
            /\ update_steps' = <<"zero_grad", "backward", "step", "clear">>
            /\ policy_loss' = {}
            /\ train_epoch' = train_epoch + 1
            /\ lpc' = "epoch"
            /\ UNCHANGED error
    /\ UNCHANGED <<metrics, mi, eval_metrics, args, num, returns, curr_max_R,
                   eval_metric, heap, l_grammar, l_input_graphs_dict,
                   l_subgraph_set, files_written, rollouts, best_seen,
                   final_passes, sampled_with, oracleVars, evalVars,
                   iterVars>>

\* evaluate(l_grammar, args, metrics=[], to_generate=GENERATED_SO_FAR) after
\* the epoch loop.
FinalPass ==
    /\ lpc = "epoch"
    /\ train_epoch >= args.max_epoches
    /\ l_grammar # Undefined
    /\ epc = "idle"
    /\ EvaluateEnter(GENERATED_SO_FAR, args.num_generated_samples)
    /\ metrics' = FinalMetrics
    /\ mi' = 1
    /\ eval_metrics' = EmptyMap
    /\ final_passes' = final_passes + 1
    /\ lpc' = "final"
    /\ UNCHANGED <<args, train_epoch, num, returns, curr_max_R, eval_metric,
                   saved_log_probs, agent_params, heap, l_grammar,
                   l_input_graphs_dict, l_subgraph_set, files_written, error,
                   rollouts, best_seen, lossVars, evalTotals, protoVars, iterVars>>

\* The same statement when no sample has run: the name l_grammar is unbound.
FinalPassUndefined ==
    /\ lpc = "epoch"
    /\ train_epoch >= args.max_epoches
    /\ l_grammar = Undefined
    /\ lpc' = "raised"
    /\ error' = "NameError"
    /\ UNCHANGED <<metrics, mi, eval_metrics, args, train_epoch, num, returns,
                   curr_max_R, eval_metric, saved_log_probs, agent_params, heap,
                   l_grammar, l_input_graphs_dict, l_subgraph_set, files_written,
                   rollouts, best_seen, final_passes, lossVars, oracleVars, evalVars, iterVars>>

NextLearn ==
    \/ EpochStart \/ SampleCopy \/ MCMCSampling \/ TrainEvaluateCall
    \/ LearnDraw \/ MetricDiversity \/ MetricSyn \/ RoundTrip
    \/ EvaluateReturn \/ Record \/ Loss \/ Update
    \/ FinalPass \/ FinalPassUndefined

SpecLearn == InitLearn /\ [][NextLearn]_vars

\* ======================================================================
\* Properties of learn
\* ======================================================================

\* C13: whenever the loss is computed, the returns collected in the epoch are
\* as many as MCMC_size and as the sample keys of the trace store, the keys
\* are the sample indices 0..MCMC_size-1, each with its return, and the
\* assertion comparing the two counts never fails.
C13_ReturnsMatchTraceKeys ==
    /\ lpc \in {"loss", "update"} =>
        /\ Len(returns) = args.MCMC_size
        /\ Cardinality(DOMAIN saved_log_probs) = args.MCMC_size
        /\ DOMAIN saved_log_probs = 0..(args.MCMC_size - 1)
        /\ \A sample \in DOMAIN saved_log_probs : sample + 1 \in DOMAIN returns
    /\ error # "AssertionError(loss)"

C13_Witness ==
    /\ lpc = "update"
    /\ train_epoch = 1
    /\ Len(returns) = 1
    /\ DOMAIN saved_log_probs = {0}

\* Every log-probability in the trace store was recorded in epoch e.
TraceOfEpoch(e) ==
    \A sample \in DOMAIN saved_log_probs :
        \A i \in DOMAIN saved_log_probs[sample] :
            \A j \in 1..Len(saved_log_probs[sample][i]) :
                saved_log_probs[sample][i][j].epoch = e

\* C14: the trace store is empty at the start of every epoch, and all it holds
\* when the loss is computed was recorded in that same epoch.
C14_TraceStoreEmptyAtEpochStart ==
    /\ lpc = "epoch" => DOMAIN saved_log_probs = {}
    /\ TraceOfEpoch(train_epoch)

C14_Witness ==
    /\ lpc = "sample"
    /\ train_epoch = 1
    /\ agent_params = 1
    /\ DOMAIN saved_log_probs = {}

\* The returns named by the checkpoints written so far, in order.
CheckpointedReturns ==
    [c \in 1..(Len(files_written) \div 3) |-> files_written[3 * c - 2].name.R]

\* C15: over the whole run a sample writes a checkpoint if and only if its
\* return is strictly greater than the running best, which is the largest of 0
\* and all returns recorded before, in this and earlier epochs; so the
\* checkpointed returns are strictly increasing and a return equal to the
\* running best writes nothing.
C15_CheckpointIffStrictlyGreater ==
    /\ [](/\ curr_max_R = best_seen
          /\ \A c \in 1..Len(CheckpointedReturns) :
                /\ FracGreater(CheckpointedReturns[c], Frac(0, 1))
                /\ c > 1 => FracGreater(CheckpointedReturns[c],
                                        CheckpointedReturns[c - 1]))
    /\ [][Len(returns') = Len(returns) + 1 =>
            LET R == returns'[Len(returns')]
            IN  /\ FracGreater(R, best_seen) <=> files_written' # files_written
                /\ FracGreater(R, best_seen) =>
                      /\ Len(files_written') = Len(files_written) + 3
                      /\ curr_max_R' = R
                /\ ~FracGreater(R, best_seen) => curr_max_R' = curr_max_R]_vars

C15_Witness ==
    /\ lpc = "loss"
    /\ train_epoch = 1
    /\ returns = <<Frac(1, 1)>>
    /\ curr_max_R = Frac(1, 1)
    /\ Len(files_written) = 3
    /\ files_written[1].name.epoch = 0

\* C16: no checkpoint file is written twice: the names of the files written in
\* a run are pairwise different, they come in triples (agent, grammar,
\* input-graph dictionary) named after the same epoch and return, and the
\* files of a triple hold the agent's parameters and the grammar and
\* input-graph dictionary of the sample that reached the new best.
C16_NoCheckpointFileWrittenTwice ==
    /\ [](/\ \A i, j \in 1..Len(files_written) :
                files_written[i].name = files_written[j].name => i = j
          /\ Len(files_written) % 3 = 0)
    /\ [][files_written' # files_written =>
            LET n == Len(files_written)
                new == SubSeq(files_written', n + 1, Len(files_written'))
            IN  /\ SubSeq(files_written', 1, n) = files_written
                /\ Len(new) = 3
                /\ <<new[1].name.kind, new[2].name.kind, new[3].name.kind>>
                      = <<"agent", "grammar", "input_graphs">>
                /\ \A f \in 1..3 : new[f].name.epoch = train_epoch
                /\ new[1].content = agent_params
                /\ new[2].content = {<<train_epoch, num>>}
                /\ new[3].content = {<<train_epoch, num>>}]_vars

C16_Witness ==
    /\ Len(files_written) = 6
    /\ files_written[1].name.epoch = files_written[4].name.epoch
    /\ files_written[1].name.R # files_written[4].name.R

\* C17 (as stated): the counter of generated molecules equals the number of
\* molecules newly retained as unique over all calls of evaluate so far.
C17_CounterCountsAcceptedMolecules == GENERATED_SO_FAR = total_accepted

\* C17 (amended): the counter starts at 0, never goes down, and is raised by
\* one at every draw of random_produce, whether the draw failed, returned a
\* duplicate or returned a molecule that is retained: after any sequence of
\* calls it equals the number of draws made, which is at least the number of
\* retained molecules.
C17_CounterCountsDraws ==
    /\ [](/\ GENERATED_SO_FAR = total_draws
          /\ total_accepted <= GENERATED_SO_FAR)
    /\ [][/\ GENERATED_SO_FAR' >= GENERATED_SO_FAR
          /\ GENERATED_SO_FAR' <= GENERATED_SO_FAR + 1]_vars

C17_Witness ==
    /\ lpc = "final"
    /\ round = 2
    /\ GENERATED_SO_FAR = 4
    /\ total_accepted = 2

\* C18: learn makes one further call of evaluate, after the last epoch and
\* all policy updates; its target is the value of the counter when it is
\* entered, it asks for no metric, touches neither the request nor the
\* response file, makes no round trip and returns an empty mapping.
C18_FinalPassAfterAllUpdates ==
    /\ [](/\ final_passes <= 1
          /\ final_passes = 1 <=> lpc \in {"final", "done"}
          /\ lpc \in {"final", "done"} =>
                /\ train_epoch = args.max_epoches
                /\ agent_params = args.max_epoches
                /\ to_generate = counter_at_call
                /\ Target = counter_at_call
                /\ save_file = SAVE_FILE_THE_END
                /\ metrics = <<>>
                /\ DOMAIN eval_metrics = {}
                /\ epc \in {"loop", "metrics", "idle"})
    /\ [][lpc = "final" =>
            UNCHANGED <<sender_file, receiver_file, round, pc, agent_params,
                        final_passes>>]_vars

C18_Witness ==
    /\ lpc = "done"
    /\ to_generate = 2
    /\ round = 2
    /\ GENERATED_SO_FAR = 4

\* C19: the samples run one after another: a rollout starts only when the
\* responses of all earlier samples have been accepted, every sample makes
\* exactly one round trip before its return is recorded, and a complete run
\* has made max_epoches * MCMC_size round trips.
C19_SamplesRunOneAfterAnother ==
    /\ round <= rollouts
    /\ rollouts <= round + 1
    /\ lpc = "rollout" =>
        /\ round = rollouts
        /\ rollouts = train_epoch * args.MCMC_size + num
        /\ pc \in {"idle", "returned"}
    /\ lpc = "record" =>
        /\ round = rollouts
        /\ rollouts = train_epoch * args.MCMC_size + num + 1
        /\ pc = "returned"
    /\ lpc = "done" =>
        /\ round = args.max_epoches * args.MCMC_size
        /\ rollouts = args.max_epoches * args.MCMC_size

C19_Witness ==
    /\ lpc = "done"
    /\ args.max_epoches = 2
    /\ round = 2
    /\ rollouts = 2

\* C20: no sample changes what another sample sees: the initial subgraph set
\* and input-graph dictionary are never changed, every rollout starts from
\* objects of its own that equal the initial ones and from an empty grammar,
\* and what a sample hands on was changed by its own rollout only.
C20_SamplesStartFromInitialState ==
    /\ heap[input_graphs_dict_init] = AsBuilt
    /\ heap[subgraph_set_init] = AsBuilt
    /\ lpc = "rollout" =>
        /\ {l_input_graphs_dict, l_subgraph_set, l_grammar}
              \cap {input_graphs_dict_init, subgraph_set_init, grammar_init} = {}
        /\ Cardinality({l_input_graphs_dict, l_subgraph_set, l_grammar}) = 3
        /\ heap[l_input_graphs_dict] = heap[input_graphs_dict_init]
        /\ heap[l_subgraph_set] = heap[subgraph_set_init]
        /\ heap[l_grammar] = AsBuilt
    /\ lpc \in {"evaluate_call", "evaluate", "record"} =>
        /\ heap[l_grammar] = {<<train_epoch, num>>}
        /\ heap[l_input_graphs_dict] = {<<train_epoch, num>>}

C20_Witness ==
    /\ lpc = "rollout"
    /\ rollouts = 1
    /\ heap[l_grammar] = AsBuilt
    /\ heap[l_input_graphs_dict] = AsBuilt

\* The log-probabilities held by the trace store.
StoredLogProbs ==
    UNION {UNION {{saved_log_probs[s][k][j] : j \in 1..Len(saved_log_probs[s][k])}
                  : k \in DOMAIN saved_log_probs[s]}
           : s \in DOMAIN saved_log_probs}

\* The largest iteration index recorded for sample s.
LastIteration(s) ==
    CHOOSE m \in DOMAIN saved_log_probs[s] :
        \A k \in DOMAIN saved_log_probs[s] : k <= m

\* C21: in the loss of an epoch every recorded log-probability has one term,
\* and the term of a log-probability of sample s at iteration k carries the
\* discount exponent m_s - k, m_s the largest iteration recorded for s: the
\* exponent is never negative, it is 0 exactly at the last iteration, and
\* between two iterations of a sample it differs by the difference of their
\* indices.
C21_DiscountExponentCountsBackFromLast ==
    lpc = "update" =>
        /\ {t.log_prob : t \in policy_loss} = StoredLogProbs
        /\ Cardinality(policy_loss) = Cardinality(StoredLogProbs)
        /\ \A t \in policy_loss :
              /\ t.exponent = LastIteration(t.log_prob.sample) - t.log_prob.iter
              /\ t.exponent >= 0
              /\ t.exponent = 0 <=> t.log_prob.iter = LastIteration(t.log_prob.sample)
        /\ \A t, u \in policy_loss :
              t.log_prob.sample = u.log_prob.sample =>
                  t.exponent - u.exponent = u.log_prob.iter - t.log_prob.iter

C21_Witness ==
    /\ lpc = "update"
    /\ \E t, u \in policy_loss :
          /\ t.log_prob.sample = u.log_prob.sample
          /\ t.exponent = 1
          /\ u.exponent = 0

\* C22: the weight of sample s in the loss is its return minus the mean of the
\* returns of the epoch, not divided by anything: the weights sum to zero, a
\* return above the mean gives a positive weight, returns [1, 3] give
\* [-1, 1], and every term of the trace stored under key s carries the weight
\* of the s-th return.
C22_WeightsAreReturnsMinusMean ==
    [][(lpc = "loss" /\ lpc' = "update") =>
        LET n == Len(returns)
            total == FracSum(returns)
            mean == Frac(total.num, total.den * n)
        IN  /\ Len(returns') = n
            /\ \A i \in 1..n :
                  /\ FracAdd(returns'[i], mean) = returns[i]
                  /\ FracGreater(returns[i], mean) <=> returns'[i].num > 0
            /\ n > 0 => FracSum(returns') = Frac(0, 1)
            /\ returns = <<Frac(1, 1), Frac(3, 1)>> =>
                  returns' = <<Frac(0 - 1, 1), Frac(1, 1)>>
            /\ \A t \in policy_loss' :
                  t.weight = returns'[t.log_prob.sample + 1]]_vars

C22_Witness ==
    /\ lpc = "update"
    /\ returns = <<Frac(0 - 1, 1), Frac(1, 1)>>
    /\ curr_max_R = Frac(3, 1)
    /\ \E t \in policy_loss : t.log_prob.sample = 1 /\ t.weight = Frac(1, 1)

\* C24: the agent's parameters are updated exactly once per epoch, after all
\* samples of the epoch have been rolled out and evaluated, by zero_grad,
\* backward, step and the clearing of the trace store in this order; they do
\* not change between the samples of an epoch, so a checkpoint holds the
\* parameters its grammar was sampled with.
C24_OneUpdatePerEpochAfterAllSamples ==
    /\ [](/\ agent_params = train_epoch
          /\ lpc \in {"evaluate_call", "evaluate", "record"} =>
                sampled_with = agent_params)
    /\ [][agent_params' # agent_params =>
            /\ lpc = "update"
            /\ agent_params' = agent_params + 1
            /\ num = args.MCMC_size
            /\ Len(returns) = args.MCMC_size
            /\ rollouts = (train_epoch + 1) * args.MCMC_size
            /\ round = rollouts
            /\ update_steps' = <<"zero_grad", "backward", "step", "clear">>
            /\ DOMAIN saved_log_probs' = {}]_vars
    /\ [][files_written' # files_written =>
            files_written'[Len(files_written) + 1].content = sampled_with]_vars

C24_Witness ==
    /\ agent_params = 2
    /\ Len(files_written) = 6
    /\ files_written[1].content = 0
    /\ files_written[4].content = 1

\* ======================================================================
\* evaluate: the loop over the requested metrics
\* ======================================================================
\* A call of evaluate on its own with any list of metric names, known or not.

\* C29: for every run of learn with max_epoches >= 0 and MCMC_size >= 0 the
\* final generation pass is reached and runs on a defined grammar: the run
\* fails neither on the unbound name l_grammar nor, with no sample in an
\* epoch, on the backward pass of a loss without terms.
C29_FinalPassOnDefinedGrammar ==
    /\ error # "NameError"
    /\ args.MCMC_size = 0 => error # "RuntimeError"
    /\ lpc = "final" => l_grammar # Undefined

\* C25: the requester never keeps an advisory lock across a wait: it holds no
\* lock while it sleeps, none when it starts the next attempt on either file
\* (after a failed attempt or a response with a wrong line count), never both
\* locks at once, and none when retro_sender has returned or raised.
C25_NoLockAcrossWait ==
    /\ pc \in {"sleep", "lock_sender", "lock_receiver", "idle", "returned", "raised"}
        => sender_lock # "requester" /\ receiver_lock # "requester"
    /\ ~(sender_lock = "requester" /\ receiver_lock = "requester")
\* The requester sleeps after a locked read of a response with a wrong line
\* count, the lock on the response file released.
C25_Witness ==
    /\ pc = "sleep"
    /\ editable
    /\ access = [file |-> "receiver", op |-> "read", locked |-> TRUE]
    /\ Len(receiver_file) # num_samples
    /\ receiver_lock = "free"


BranchNames == {"diversity", "num_rules", "num_samples", "syn"}

MetricLists ==
    UNION {[1..n -> BranchNames \cup {"bogus"}] : n \in 0..MaxMetrics}

\* Variant: the assertion lets every name pass.
MetricKnownAny(name) == TRUE

\* assert _metric in ["diversity", "num_rules", "num_samples", "syn"]
MetricKnown(name) == name \in {"diversity", "num_rules", "num_samples", "syn"}

\* grammar.num_prod_rule of the grammar handed to evaluate
NumRules == IF l_grammar = Undefined THEN 0 ELSE Cardinality(heap[l_grammar])

MetricsCall ==
    /\ lpc = "off"
    /\ epc = "idle"
    /\ \E t \in {0 - 1} \cup 0..MaxTarget, n \in 0..MaxTarget :
          /\ t # 0 - 1 => n = MaxTarget
          /\ EvaluateEnter(t, n)
    /\ \E ms \in MetricLists : metrics' = ms
    /\ mi' = 1
    /\ eval_metrics' = EmptyMap
    /\ UNCHANGED <<lpc, args, train_epoch, num, returns, curr_max_R, eval_metric,
                   saved_log_probs, agent_params, heap, l_grammar,
                   l_input_graphs_dict, l_subgraph_set, files_written, error,
                   rollouts, best_seen, final_passes, lossVars, evalTotals,
                   protoVars, iterVars>>

\* One pass of the generation loop of the call.
MetricsDraw ==
    /\ lpc = "off"
    /\ GENERATED_SO_FAR < MaxLearnDraws
    /\ (DrawNone \/ \E m \in LearnMols : DrawMol(m))

\* for _metric in metrics, _metric == "num_rules"
MetricNumRules ==
    /\ epc = "metrics"
    /\ mi <= Len(metrics)
    /\ metrics[mi] = "num_rules"
    /\ MetricKnown(metrics[mi])
    /\ eval_metrics' = ("num_rules" :> NumRules) @@ eval_metrics
    /\ mi' = mi + 1
    /\ UNCHANGED <<metrics, lpc, args, train_epoch, num, returns, curr_max_R,
                   eval_metric, saved_log_probs, agent_params, heap, l_grammar,
                   l_input_graphs_dict, l_subgraph_set, files_written, error,
                   rollouts, best_seen, final_passes, lossVars, oracleVars,
                   evalVars, iterVars>>

\* for _metric in metrics, _metric == "num_samples"
MetricNumSamples ==
    /\ epc = "metrics"
    /\ mi <= Len(metrics)
    /\ metrics[mi] = "num_samples"
    /\ MetricKnown(metrics[mi])
    /\ eval_metrics' = ("num_samples" :> idx) @@ eval_metrics
    /\ mi' = mi + 1
    /\ UNCHANGED <<metrics, lpc, args, train_epoch, num, returns, curr_max_R,
                   eval_metric, saved_log_probs, agent_params, heap, l_grammar,
                   l_input_graphs_dict, l_subgraph_set, files_written, error,
                   rollouts, best_seen, final_passes, lossVars, oracleVars,
                   evalVars, iterVars>>

\* for _metric in metrics, a name that matches no branch: the assertion at
\* the head of the loop body fails (were it to pass, the final else raises).
MetricUnknown ==
    /\ epc = "metrics"
    /\ mi <= Len(metrics)
    /\ metrics[mi] \notin BranchNames
    /\ epc' = "raised"
    /\ error' = IF MetricKnown(metrics[mi]) THEN "NotImplementedError"
                ELSE "AssertionError(metric)"
    /\ UNCHANGED <<num_generated_samples, to_generate,
                   generated_samples_canonical_sml, idx, no_newly_generated_iter,
                   save_file, molecule_file, dup_streak, since_accept, mol_draws,
                   counter_at_call, evalTotals, oracleVars>>
    /\ UNCHANGED <<metrics, mi, eval_metrics, lpc, args, train_epoch, num,
                   returns, curr_max_R, eval_metric, saved_log_probs,
                   agent_params, heap, l_grammar, l_input_graphs_dict,
                   l_subgraph_set, files_written, rollouts, best_seen,
                   final_passes, lossVars, iterVars>>

\* return eval_metrics
MetricsReturn ==
    /\ lpc = "off"
    /\ epc = "metrics"
    /\ mi > Len(metrics)
    /\ epc' = "returned"
    /\ UNCHANGED <<num_generated_samples, to_generate,
                   generated_samples_canonical_sml, idx, no_newly_generated_iter,
                   save_file, molecule_file, dup_streak, since_accept, mol_draws,
                   counter_at_call, evalTotals, oracleVars, learnVars, iterVars>>

NextMetrics ==
    \/ MetricsCall \/ MetricsDraw \/ MetricDiversity \/ MetricNumRules
    \/ MetricNumSamples \/ MetricSyn \/ RoundTrip \/ MetricUnknown
    \/ MetricsReturn

SpecMetrics == Init /\ [][NextMetrics]_vars

\* The number of entries "syn" among the first k names of the call.
SynBefore(k) == Cardinality({i \in 1..k : metrics[i] = "syn"})

\* C23 (as stated): a call with an unknown metric name fails before any
\* molecule is generated, before anything is appended to the log and before
\* any oracle round trip of the call.
C23_UnknownMetricFailsBeforeGeneration ==
    error = "AssertionError(metric)" =>
        /\ total_draws = 0
        /\ molecule_file = <<>>
        /\ round = 0

\* C23 (amended): a call with an unknown metric name fails with an assertion
\* error and returns no mapping, but only when the loop over the metrics
\* reaches that name: the generation loop has then run to its end and logged
\* its molecules, and every metric named before it has been computed, an
\* oracle round trip made for each "syn" among them.
C23_UnknownMetricFailsWhenReached ==
    /\ error # "NotImplementedError"
    /\ epc = "returned" =>
        /\ \A i \in 1..Len(metrics) : metrics[i] \in BranchNames
        /\ DOMAIN eval_metrics = Range(metrics)
    /\ epc \in {"metrics", "syn"} =>
        \A i \in 1..(mi - 1) : metrics[i] \in BranchNames
    /\ error = "AssertionError(metric)" =>
        /\ epc = "raised"
        /\ metrics[mi] \notin BranchNames
        /\ \A i \in 1..(mi - 1) : metrics[i] \in DOMAIN eval_metrics
        /\ round = SynBefore(mi - 1)
        /\ idx >= 1
        /\ Len(molecule_file) >= 1
        /\ total_draws >= 1
        /\ LoopExit(idx, no_newly_generated_iter, Target)

C23_Witness ==
    /\ error = "AssertionError(metric)"
    /\ metrics = <<"syn", "bogus">>
    /\ round = 1
    /\ Len(molecule_file) = 2

\* C30: for every target count T >= 0 evaluate never retains more than T
\* unique molecules: no draw is made once the number of retained molecules
\* has reached T, and the num_samples metric is at most T.
C30_RetainsAtMostTarget ==
    /\ [](epc # "idle" => idx <= Target)
    /\ []("num_samples" \in DOMAIN eval_metrics
            => eval_metrics["num_samples"] <= Target)
    /\ [][IsDraw => idx < Target]_vars

\* ======================================================================
\* ThreadedIterator
\* ======================================================================

None == "None"
\* Values an element of the original iterator may have.
Items == {"a", "b", None}

RECURSIVE SeqsUpTo(_, _)
SeqsUpTo(S, n) ==
    IF n = 0 THEN {<<>>}
    ELSE LET shorter == SeqsUpTo(S, n - 1) IN
         shorter \cup {Append(q, x) : q \in {r \in shorter : Len(r) = n - 1},
                                      x \in S}

\* Finite original iterators.
Iterators == SeqsUpTo(Items, MaxItems)
\* Values of max_queue_size; queue.Queue takes any integer.
QueueSizes == 0..MaxQueueSize

\* Variant: the queue never counts as full.
FullNever(q, maxsize) == FALSE
\* queue.Queue(maxsize): put blocks while the queue holds maxsize entries; a
\* maxsize of 0 or less makes the queue unbounded.
Full(q, maxsize) == maxsize > 0 /\ Len(q) >= maxsize

\* Variant: put places the entry at the head of the queue.
PutFirst(q, element) == <<element>> \o q
\* self.__queue.put(element, block=True) on a queue that is not full
Put(q, element) == Append(q, element)

\* ThreadedIterator(original_iterator, max_queue_size): the queue is created
\* and the worker thread started.
ThreadedIteratorInit(it, maxsize) ==
    /\ original_iterator = it
    /\ max_queue_size = maxsize
    /\ queue = <<>>
    /\ thread = "running"
    /\ produced = 0
    /\ ipc = "idle"
    /\ next_element = "unset"
    /\ received = <<>>
    /\ iterations = 0

InitIter ==
    /\ OracleIdle /\ EvalIdle /\ LearnIdle
    /\ \E it \in Iterators, maxsize \in QueueSizes :
          ThreadedIteratorInit(it, maxsize)

\* worker: one pass of the for loop with an element that is not None; the put
\* waits while the queue is full.
WorkerPut ==
    /\ thread = "running"
    /\ produced < Len(original_iterator)
    /\ original_iterator[produced + 1] # None
    /\ ~Full(queue, max_queue_size)
    /\ queue' = Put(queue, original_iterator[produced + 1])
    /\ produced' = produced + 1
    /\ UNCHANGED <<original_iterator, max_queue_size, thread, ipc, next_element,
                   received, iterations, oracleVars, evalVars, learnVars>>

\* worker: the element is None; the assertion fails and ends the thread,
\* nothing more is put.
WorkerAssertFails ==
    /\ thread = "running"
    /\ produced < Len(original_iterator)
    /\ original_iterator[produced + 1] = None
    /\ thread' = "failed"
    /\ produced' = produced + 1
    /\ UNCHANGED <<original_iterator, max_queue_size, queue, ipc, next_element,
                   received, iterations, oracleVars, evalVars, learnVars>>

\* worker: the for loop is over; None is put, waiting while the queue is full,
\* and the thread ends.
WorkerPutNone ==
    /\ thread = "running"
    /\ produced = Len(original_iterator)
    /\ ~Full(queue, max_queue_size)
    /\ queue' = Put(queue, None)
    /\ thread' = "done"
    /\ UNCHANGED <<original_iterator, max_queue_size, produced, ipc,
                   next_element, received, iterations, oracleVars, evalVars,
                   learnVars>>

\* The consumer starts to iterate: __iter__ runs up to its first get.
IterStart ==
    /\ ipc \in {"idle", "stopped", "ended"}
    /\ iterations < MaxIterations
    /\ ipc' = "get"
    /\ iterations' = iterations + 1
    /\ UNCHANGED <<original_iterator, max_queue_size, queue, thread, produced,
                   next_element, received, oracleVars, evalVars, learnVars>>

\* next_element = self.__queue.get(block=True): waits while the queue is
\* empty; the while test follows.
Get ==
    /\ ipc = "get"
    /\ queue # <<>>
    /\ next_element' = Head(queue)
    /\ queue' = Tail(queue)
    /\ ipc' = IF Head(queue) # None THEN "yield" ELSE "join"
    /\ UNCHANGED <<original_iterator, max_queue_size, thread, produced,
                   received, iterations, oracleVars, evalVars, learnVars>>

\* yield next_element: the consumer has the element.
Yield ==
    /\ ipc = "yield"
    /\ received' = Append(received, next_element)
    /\ ipc' = "body"
    /\ UNCHANGED <<original_iterator, max_queue_size, queue, thread, produced,
                   next_element, iterations, oracleVars, evalVars, learnVars>>

\* The consumer asks for the next element: __iter__ resumes after the yield.
Resume ==
    /\ ipc = "body"
    /\ ipc' = "get"
    /\ UNCHANGED <<original_iterator, max_queue_size, queue, thread, produced,
                   next_element, received, iterations, oracleVars, evalVars,
                   learnVars>>

\* The consumer leaves its loop before exhaustion: the generator is closed at
\* the yield and the join is not reached.
Break ==
    /\ ipc = "body"
    /\ ipc' = "stopped"
    /\ UNCHANGED <<original_iterator, max_queue_size, queue, thread, produced,
                   next_element, received, iterations, oracleVars, evalVars,
                   learnVars>>

\* self.__thread.join(): waits until the worker thread has ended; the
\* iteration is over.
Join ==
    /\ ipc = "join"
    /\ thread # "running"
    /\ ipc' = "ended"
    /\ UNCHANGED <<original_iterator, max_queue_size, queue, thread, produced,
                   next_element, received, iterations, oracleVars, evalVars,
                   learnVars>>

\* The consumer is done with the ThreadedIterator without having iterated it,
\* or after it left its loop early: it will not iterate it (again).
Drop ==
    /\ ipc \in {"idle", "stopped"}
    /\ ipc' = "dropped"
    /\ UNCHANGED <<original_iterator, max_queue_size, queue, thread, produced,
                   next_element, received, iterations, oracleVars, evalVars,
                   learnVars>>

NextIter ==
    \/ WorkerPut \/ WorkerAssertFails \/ WorkerPutNone
    \/ IterStart \/ Get \/ Yield \/ Resume \/ Break \/ Join \/ Drop

SpecIter == InitIter /\ [][NextIter]_vars

\* ---------------------------------------------------------------- C26-C28

AllNotNone == \A i \in 1..Len(original_iterator) : original_iterator[i] # None
\* Elements put and not yet handed to the consumer, oldest first.
Pending ==
    (IF ipc = "yield" THEN <<next_element>> ELSE <<>>)
        \o SelectSeq(queue, LAMBDA e : e # None)
\* Elements the worker has put so far.
PutSoFar == IF thread = "failed" THEN produced - 1 ELSE produced

\* C26: when no element of the original iterator is None, the consumer
\* receives the elements of the original iterator in their order, each once,
\* under every interleaving: what it has received is always a prefix of the
\* original, in its first iteration it never waits on an empty queue after the
\* worker has ended, the iteration ends only when every element has been
\* received, and the worker thread has ended when the iteration is over.
C26_ConsumerReceivesOriginalInOrder ==
    AllNotNone =>
        /\ IsPrefix(received, original_iterator)
        /\ ipc \in {"join", "ended"} => received = original_iterator
        /\ ipc = "ended" => thread = "done"
        /\ (ipc = "get" /\ iterations = 1 /\ queue = <<>>) => thread = "running"

C26_Witness ==
    /\ original_iterator = <<"a", "b", "a">>
    /\ max_queue_size = 1
    /\ iterations = 1
    /\ ipc = "ended"
    /\ received = original_iterator
    /\ thread = "done"

\* C27 (as stated): the queue never holds more than max_queue_size entries,
\* and the worker puts nothing while the queue holds that many.
C27_QueueWithinMaxQueueSize ==
    /\ [](Len(queue) <= max_queue_size)
    /\ [][Len(queue) >= max_queue_size
            => /\ Len(queue') <= Len(queue)
               /\ thread' = "done" => thread = "done"]_vars

\* C27 (amended): with max_queue_size >= 1 the queue never holds more than
\* max_queue_size entries, sentinel included, and the worker puts nothing
\* while the queue is full; with max_queue_size <= 0 the queue is unbounded
\* and holds at most every element and the sentinel. In both cases nothing is
\* dropped or overwritten: what has been received and what is pending are
\* together the elements put so far, in order.
C27_QueueWithinPositiveMaxQueueSize ==
    /\ [](max_queue_size >= 1 => Len(queue) <= max_queue_size)
    /\ [](max_queue_size <= 0 => Len(queue) <= Len(original_iterator) + 1)
    /\ [](received \o Pending = SubSeq(original_iterator, 1, PutSoFar))
    /\ [][Full(queue, max_queue_size)
            => /\ Len(queue') <= Len(queue)
               /\ thread' = "done" => thread = "done"]_vars

\* The worker waits on a full queue, elements still to come.
C27_Witness ==
    /\ max_queue_size = 2
    /\ Len(queue) = 2
    /\ thread = "running"
    /\ produced < Len(original_iterator)
    /\ ipc = "get"

\* The worker waits on a full queue that the consumer will not read again.
WorkerBlockedForever ==
    thread = "running" /\ Full(queue, max_queue_size) /\ ipc = "dropped"
\* The consumer waits on an empty queue after the worker has ended.
ConsumerBlockedForever ==
    ipc = "get" /\ queue = <<>> /\ thread # "running"

\* C28: no thread of a ThreadedIterator stays blocked forever on the queue,
\* whatever the consumer does: for an original iterator without None
\* elements the worker never waits on a full queue that the consumer has
\* stopped reading, and the consumer never waits on an empty queue that the
\* worker has stopped feeding.
C28_NoThreadBlockedForever ==
    AllNotNone => ~WorkerBlockedForever /\ ~ConsumerBlockedForever
====
